---- MODULE Spec2Model ----
(***************************************************************************)
(* Payment reconciliation state machine of the hotspot backend             *)
(* (src/server.js, the server that serves /api/process_payment,            *)
(* /api/callback, /api/check_payment_status and                            *)
(* /api/mikrotik/check_payment).                                           *)
(*                                                                         *)
(* Strings the code inspects character by character (phone numbers, plan   *)
(* descriptions) are sequences of one-character strings.  Time is counted  *)
(* in whole hours, so that Date.now() + durationHours * 60 * 60 * 1000 is  *)
(* now + durationHours.                                                    *)
(*                                                                         *)
(* payments is the collection, queue the background tasks scheduled with   *)
(* setImmediate and not yet run, and last what the latest step that        *)
(* changed the collection or the queue sent or logged.  A request that     *)
(* changes neither leaves every variable as it is: its response is the     *)
(* value of the handler's operator (ProcessPaymentOutcome,                 *)
(* CheckPaymentStatusResponse, CheckEntitlementResponse) in that state.    *)
(* Response messages of /api/process_payment are cut to their first words. *)
(*                                                                         *)
(* env is process.env (the names that are set) and proc the state of the   *)
(* process.  inflight holds the initiations the provider has accepted and  *)
(* whose record is not saved yet, and norm an input of normalizePhoneNumber*)
(* with the result of applying it.  Spec starts with the server serving    *)
(* and runs an initiation as one step; SpecStartup starts before the       *)
(* configuration check, SpecInterleaved lets other steps run between the   *)
(* provider's answer and the save, SpecRetry lets the provider deliver a   *)
(* confirmation again while its first delivery is pending, and             *)
(* SpecNormalize applies normalizePhoneNumber to drawn inputs.             *)
(*                                                                         *)
(* amt is the amount of an initiation, from the text of the request to     *)
(* what is sent and stored (SpecAmount); err an error passed to the        *)
(* error handling middleware with the response it gets (SpecErrors);       *)
(* client the captive-portal page of src/unnamed/part_001, with its timer, *)
(* its requests in flight and its calls of mikrotikLogin (SpecClient).     *)
(***************************************************************************)
EXTENDS Integers, Sequences, FiniteSets, TLC

VARIABLES payments, now, queue, last, inflight, norm, amt, err, client, env, proc

vars == <<payments, now, queue, last, inflight, norm, amt, err, client, env, proc>>

(***************************************************************************)
(* Bounds                                                                  *)
(***************************************************************************)
MaxTime == 1
MaxPayments == 2
MaxQueue == 1
\* deliveries of a confirmation repeated while the first one is pending
MaxRedeliveries == 1
\* initiations between the provider's acceptance and newPayment.save()
MaxInflight == 1
\* the captive-portal page: payment forms submitted, status requests in
\* flight, and calls of mikrotikLogin
MaxSubmissions == 2
MaxPolls == 2
MaxLogins == 2

(***************************************************************************)
(* Absent values (undefined / null in the code)                            *)
(***************************************************************************)
None == "undefined"
NoDate == -1
NoCode == -1
NoAmount == -1
NoText == <<>>
NoTxDate == <<>>

(***************************************************************************)
(* String helpers                                                          *)
(***************************************************************************)
Digits == {"0", "1", "2", "3", "4", "5", "6", "7", "8", "9"}

RECURSIVE TrimLeft(_)
TrimLeft(s) ==
  IF s # <<>> /\ Head(s) = " " THEN TrimLeft(Tail(s)) ELSE s

RECURSIVE TrimRight(_)
TrimRight(s) ==
  IF s # <<>> /\ s[Len(s)] = " " THEN TrimRight(SubSeq(s, 1, Len(s) - 1)) ELSE s

Trim(s) == TrimRight(TrimLeft(s))

Substring_whole(s, from) == s

Substring(s, from) == SubSeq(s, from + 1, Len(s))

StartsWith(s, p) == Len(s) >= Len(p) /\ SubSeq(s, 1, Len(p)) = p

Includes(s, needle) ==
  \E i \in 0..(Len(s) - Len(needle)) : SubSeq(s, i + 1, i + Len(needle)) = needle

UpperCase == <<"A", "B", "C", "D", "E", "F", "G", "H", "I", "J", "K", "L", "M",
               "N", "O", "P", "Q", "R", "S", "T", "U", "V", "W", "X", "Y", "Z">>
LowerCase == <<"a", "b", "c", "d", "e", "f", "g", "h", "i", "j", "k", "l", "m",
               "n", "o", "p", "q", "r", "s", "t", "u", "v", "w", "x", "y", "z">>

\* the lower-case letter of each upper-case letter
LowerTable ==
  [c \in {UpperCase[k] : k \in 1..Len(UpperCase)} |->
     LowerCase[CHOOSE k \in 1..Len(UpperCase) : UpperCase[k] = c]]

LowerOf(c) == IF c \in DOMAIN LowerTable THEN LowerTable[c] ELSE c

ToLowerCase(s) == [i \in 1..Len(s) |-> LowerOf(s[i])]

AllDigits(s) == \A i \in 1..Len(s) : s[i] \in Digits

(***************************************************************************)
(* normalizePhoneNumber                                                    *)
(***************************************************************************)
\* /^(0(1|7)\d{8}|254(1|7)\d{8})$/
kenyanPhoneRegex(p) ==
  \/ /\ Len(p) = 10
     /\ p[1] = "0"
     /\ p[2] \in {"1", "7"}
     /\ AllDigits(SubSeq(p, 3, 10))
  \/ /\ Len(p) = 12
     /\ SubSeq(p, 1, 3) = <<"2", "5", "4">>
     /\ p[4] \in {"1", "7"}
     /\ AllDigits(SubSeq(p, 5, 12))

normalizePhoneNumber_lenient(phone) == Trim(phone)

\* NoText stands for the null the function returns on rejection
normalizePhoneNumber(phone) ==
  LET p == Trim(phone) IN
    IF ~kenyanPhoneRegex(p) THEN NoText
    ELSE IF StartsWith(p, <<"0">>) THEN <<"2", "5", "4">> \o Substring(p, 1)
    ELSE p

(***************************************************************************)
(* Plan descriptions and the duration / bandwidth ladders                  *)
(***************************************************************************)
Plan3HU == <<"3", "-", "H", "o", "u", "r", " ", "U", "n", "l", "i", "m", "i", "t", "e", "d">>
Plan7H == <<"7", "-", "H", "o", "u", "r">>

Plans == {Plan3HU, Plan7H}

durationHoursOf(desc) ==
  LET ladder ==
        IF Includes(desc, <<"3", "-", "H", "o", "u", "r">>) THEN 3
        ELSE IF Includes(desc, <<"7", "-", "H", "o", "u", "r">>) THEN 7
        ELSE IF Includes(desc, <<"1", "4", "-", "H", "o", "u", "r">>) THEN 14
        ELSE IF Includes(desc, <<"2", "4", "-", "H", "o", "u", "r">>) THEN 24
        ELSE 1
  IN IF Includes(ToLowerCase(desc), <<"u", "n", "l", "i", "m", "i", "t", "e", "d">>)
     THEN 24 ELSE ladder

(***************************************************************************)
(* Inputs                                                                  *)
(***************************************************************************)
MerchantIds == {"M1", "M2"}
CheckoutIds == {"ws_CO_1", "ws_CO_2"}

\* the (MerchantRequestID, CheckoutRequestID) pairs of provider messages
CorrelationPairs == {<<"M1", "ws_CO_1">>, <<"M2", "ws_CO_2">>, <<"M1", "ws_CO_2">>}

Phone07 == <<"0", "7", "1", "2", "3", "4", "5", "6", "7", "8">>
Phone254 == <<"2", "5", "4", "7", "1", "2", "3", "4", "5", "6", "7", "8">>
PhoneShort == <<"1", "2", "3", "4", "5">>

\* phone values of a request; NoText is a missing field
PhoneInputs == {NoText, Phone07, Phone254, PhoneShort}

\* bodies of POST /api/process_payment: a missing amount reads as 0, a missing
\* phone or packageDescription as NoText
Request(amount, phone, desc) ==
  [amount |-> amount, phone |-> phone, packageDescription |-> desc]

PaymentRequests ==
  { Request(20, Phone07, Plan3HU), Request(20, Phone254, Plan7H),
    Request(0, Phone07, Plan3HU), Request(-5, Phone07, Plan3HU),
    Request(20, NoText, Plan7H), Request(20, PhoneShort, Plan7H),
    Request(20, Phone254, NoText) }

Receipts == {"ABC123", "XYZ789"}

TxDate == <<"2", "0", "2", "4", "0", "1", "0", "1", "1", "2", "0", "0", "0", "0">>

Item(name, value) == [Name |-> name, Value |-> value]

FullItems(receipt, phone) ==
  << Item("Amount", 20), Item("MpesaReceiptNumber", receipt),
     Item("TransactionDate", TxDate), Item("PhoneNumber", phone) >>

\* CallbackMetadata values: absent, with an Item list, or with an Item that
\* is no array (forEach is not a function)
NoMetadata == [present |-> FALSE, iterable |-> TRUE, Items |-> <<>>]
Metadata(items) == [present |-> TRUE, iterable |-> TRUE, Items |-> items]
MalformedMetadata == [present |-> TRUE, iterable |-> FALSE, Items |-> <<>>]

Metadatas ==
  {NoMetadata, Metadata(FullItems("ABC123", Phone254)),
   Metadata(FullItems("XYZ789", Phone07))}

FailureCodes == {1, 1032, 1037}

\* request bodies of the webhook: without Body.stkCallback, or with it
BadEnvelope ==
  [hasStkCallback |-> FALSE, MerchantRequestID |-> None,
   CheckoutRequestID |-> None, ResultCode |-> NoCode, ResultDesc |-> None,
   CallbackMetadata |-> NoMetadata]

Envelope(m, c, code, desc, meta) ==
  [hasStkCallback |-> TRUE, MerchantRequestID |-> m, CheckoutRequestID |-> c,
   ResultCode |-> code, ResultDesc |-> desc, CallbackMetadata |-> meta]

\* a success carries its metadata and description, a failure neither
CallbackBodies ==
  {BadEnvelope}
  \cup {Envelope(k[1], k[2], 0, IF meta.present THEN "processed successfully" ELSE None, meta) :
          k \in CorrelationPairs, meta \in Metadatas}
  \cup {Envelope(k[1], k[2], code, None, NoMetadata) :
          k \in CorrelationPairs, code \in FailureCodes}
  \cup {Envelope("M1", "ws_CO_1", 0, "processed successfully", MalformedMetadata)}

(***************************************************************************)
(* The Payment collection                                                  *)
(***************************************************************************)
TerminalStatuses == {"Completed", "Failed", "Cancelled", "Timeout"}

NewPayment_default(m, c, amount, phone, desc, t) ==
  [MerchantRequestID |-> m, CheckoutRequestID |-> c, ResultCode |-> NoCode,
   ResultDesc |-> None, Amount |-> amount, MpesaReceiptNumber |-> None,
   TransactionDate |-> NoTxDate, PhoneNumber |-> phone,
   packageDescription |-> desc, status |-> "Pending",
   RawCallbackData |-> None, expiresAt |-> NoDate,
   createdAt |-> t, updatedAt |-> t]

\* new Payment({...}) followed by save(): the schema's fields, timestamps: true
NewPayment_noPlan(m, c, amount, phone, desc, t) ==
  [MerchantRequestID |-> m, CheckoutRequestID |-> c, ResultCode |-> NoCode,
   ResultDesc |-> None, Amount |-> amount, MpesaReceiptNumber |-> None,
   TransactionDate |-> NoTxDate, PhoneNumber |-> phone,
   packageDescription |-> NoText, status |-> "Processing",
   RawCallbackData |-> None, expiresAt |-> NoDate,
   createdAt |-> t, updatedAt |-> t]

NewPayment(m, c, amount, phone, desc, t) ==
  [MerchantRequestID |-> m, CheckoutRequestID |-> c, ResultCode |-> NoCode,
   ResultDesc |-> None, Amount |-> amount, MpesaReceiptNumber |-> None,
   TransactionDate |-> NoTxDate, PhoneNumber |-> phone,
   packageDescription |-> desc, status |-> "Processing",
   RawCallbackData |-> None, expiresAt |-> NoDate,
   createdAt |-> t, updatedAt |-> t]

UniqueOk_noIndex(coll) == TRUE

UniqueOk_noReceiptIndex(coll) ==
  \A i, j \in 1..Len(coll) :
    i # j =>
      /\ coll[i].MerchantRequestID # coll[j].MerchantRequestID
      /\ coll[i].CheckoutRequestID # coll[j].CheckoutRequestID

\* the unique indexes of the schema; MpesaReceiptNumber is unique and sparse
UniqueOk(coll) ==
  \A i, j \in 1..Len(coll) :
    i # j =>
      /\ coll[i].MerchantRequestID # coll[j].MerchantRequestID
      /\ coll[i].CheckoutRequestID # coll[j].CheckoutRequestID
      /\ \/ coll[i].MpesaReceiptNumber = None
         \/ coll[i].MpesaReceiptNumber # coll[j].MpesaReceiptNumber

(***************************************************************************)
(* Phase B of the webhook: the fields the confirmation sets                *)
(***************************************************************************)
DigitValue(c) ==
  CASE c = "0" -> 0 [] c = "1" -> 1 [] c = "2" -> 2 [] c = "3" -> 3
    [] c = "4" -> 4 [] c = "5" -> 5 [] c = "6" -> 6 [] c = "7" -> 7
    [] c = "8" -> 8 [] c = "9" -> 9

RECURSIVE ToNumber(_)
ToNumber(s) ==
  IF s = <<>> THEN 0
  ELSE 10 * ToNumber(SubSeq(s, 1, Len(s) - 1)) + DigitValue(s[Len(s)])

\* new Date(Date.UTC(year, month, day, hour, minute, second)), as its fields
ParseTransactionDate(dateString) ==
  << ToNumber(SubSeq(dateString, 1, 4)), ToNumber(SubSeq(dateString, 5, 6)) - 1,
     ToNumber(SubSeq(dateString, 7, 8)), ToNumber(SubSeq(dateString, 9, 10)),
     ToNumber(SubSeq(dateString, 11, 12)), ToNumber(SubSeq(dateString, 13, 14)) >>

\* one round of callbackMetadata.Item.forEach
ApplyItem(upd, item) ==
  LET a == IF item.Name = "Amount" THEN ("Amount" :> item.Value) @@ upd ELSE upd
      b == IF item.Name = "MpesaReceiptNumber"
           THEN ("MpesaReceiptNumber" :> item.Value) @@ a ELSE a
      c == IF item.Name = "TransactionDate" /\ Len(item.Value) = 14
           THEN ("TransactionDate" :> ParseTransactionDate(item.Value)) @@ b ELSE b
  IN IF item.Name = "PhoneNumber" THEN ("PhoneNumber" :> item.Value) @@ c ELSE c

RECURSIVE ApplyItems(_, _)
ApplyItems(upd, items) ==
  IF items = <<>> THEN upd
  ELSE ApplyItems(ApplyItem(upd, Head(items)), Tail(items))

\* the duration is read from updateFields, the object built from the callback
CallbackDurationHours(upd) ==
  durationHoursOf(IF "packageDescription" \in DOMAIN upd
                  THEN upd.packageDescription ELSE NoText)

\* updateFields of the resultCode === 0 branch before the expiry is added.
\* The copy of the callback kept in RawCallbackData is read by no operation;
\* the model keeps only that it is there.
MetadataFields(body) ==
  LET base == [ResultCode |-> body.ResultCode,
               ResultDesc |-> IF body.ResultDesc # None THEN body.ResultDesc
                              ELSE "No specific description provided.",
               RawCallbackData |-> "callbackData",
               status |-> "Completed"]
  IN IF body.CallbackMetadata.present
     THEN ApplyItems(base, body.CallbackMetadata.Items)
     ELSE base

UpdateFields_noExpiry(body, t) == MetadataFields(body)

\* updateFields of the resultCode === 0 branch, built at time t
UpdateFields(body, t) ==
  ("expiresAt" :> (t + CallbackDurationHours(MetadataFields(body))))
    @@ MetadataFields(body)

QueryMatches_any(doc, body) == TRUE

\* { $or: [{CheckoutRequestID}, {MerchantRequestID}] }
QueryMatches(doc, body) ==
  \/ doc.CheckoutRequestID = body.CheckoutRequestID
  \/ doc.MerchantRequestID = body.MerchantRequestID

\* $set of the update fields; timestamps: true also sets updatedAt
SetFields(doc, upd, t) ==
  [f \in DOMAIN doc |->
     IF f = "updatedAt" THEN t
     ELSE IF f \in DOMAIN upd THEN upd[f]
     ELSE doc[f]]

CallbackOptions_upsert == [new |-> TRUE, upsert |-> TRUE, runValidators |-> TRUE]

\* options of Payment.findOneAndUpdate in the callback
CallbackOptions == [new |-> TRUE, upsert |-> FALSE, runValidators |-> TRUE]

\* the document an upsert inserts: the $set fields over the schema defaults
UpsertDoc(upd, t) ==
  SetFields(NewPayment(None, None, NoAmount, NoText, NoText, t), upd, t)

\* the results Payment.findOneAndUpdate(query, {$set: upd}, opts) can have:
\* one matching document updated (the store chooses which when the clauses of
\* the $or match different documents), a document inserted when none matches
\* and upsert is set, or no change.  A write that breaks a unique index is
\* rejected by the store and throws.
FindOneAndUpdateResults(coll, body, upd, opts, t) ==
  LET matching == {i \in 1..Len(coll) : QueryMatches(coll[i], body)}
      updated == {[coll EXCEPT ![i] = SetFields(coll[i], upd, t)] : i \in matching}
      inserted == IF matching = {} /\ opts.upsert
                  THEN {Append(coll, UpsertDoc(upd, t))} ELSE {}
      written == updated \cup inserted
  IN {[threw |-> FALSE, found |-> TRUE, coll |-> c] : c \in {d \in written : UniqueOk(d)}}
     \cup {[threw |-> TRUE, found |-> TRUE, coll |-> coll] :
             c \in {d \in written : ~UniqueOk(d)}}
     \cup (IF written = {}
           THEN {[threw |-> FALSE, found |-> FALSE, coll |-> coll]} ELSE {})

(***************************************************************************)
(* Responses                                                               *)
(***************************************************************************)
NoResp == [op |-> "none"]

\* which provider endpoints a process_payment request has called
Calls(token, stk) == [token |-> token, stk |-> stk]

\* the centralized error handling middleware, for an APIError
ApiError(op, statusCode, message, calls) ==
  [op |-> op, status |-> statusCode, success |-> FALSE, message |-> message,
   calls |-> calls]

\* the centralized error handling middleware, for any other error
InternalError(op, calls) ==
  [op |-> op, status |-> 500, success |-> FALSE,
   message |-> "An internal server error occurred. Please try again later.",
   calls |-> calls]

(***************************************************************************)
(* The provider                                                            *)
(***************************************************************************)
\* answers of the credential endpoint: HTTP status and whether the body
\* carries an access_token
TokenOutcomes ==
  { [ok |-> TRUE, status |-> 200, token |-> TRUE],
    [ok |-> TRUE, status |-> 200, token |-> FALSE],
    [ok |-> FALSE, status |-> 400, token |-> FALSE],
    [ok |-> FALSE, status |-> 503, token |-> FALSE] }

\* answers of the push-payment endpoint
StkOutcomes ==
  { [ResponseCode |-> "0", MerchantRequestID |-> k[1], CheckoutRequestID |-> k[2]] :
      k \in CorrelationPairs }
  \cup { [ResponseCode |-> "1", MerchantRequestID |-> None, CheckoutRequestID |-> None,
           CustomerMessage |-> None, ResponseDescription |-> "Rejected",
           errorMessage |-> None],
         [ResponseCode |-> None, MerchantRequestID |-> None, CheckoutRequestID |-> None,
           CustomerMessage |-> None, ResponseDescription |-> None,
           errorMessage |-> "Invalid Access Token"],
         [ResponseCode |-> None, MerchantRequestID |-> None, CheckoutRequestID |-> None,
           CustomerMessage |-> None, ResponseDescription |-> None,
           errorMessage |-> None] }

StkAccepted_any(stk) == TRUE

\* stkPushData.ResponseCode === "0"
StkAccepted(stk) == stk.ResponseCode = "0"

StkErrorMessage_unknown(stk) ==
  "Unknown error from M-Pesa during STK push initiation."

\* errorMessage of the reject branch
StkErrorMessage(stk) ==
  IF stk.CustomerMessage # None THEN stk.CustomerMessage
  ELSE IF stk.ResponseDescription # None THEN stk.ResponseDescription
  ELSE IF stk.errorMessage # None THEN stk.errorMessage
  ELSE "Unknown error from M-Pesa during STK push initiation."

(***************************************************************************)
(* Initial state                                                           *)
(***************************************************************************)
requiredEnvVars_noStore ==
  {"MPESA_CONSUMER_KEY", "MPESA_CONSUMER_SECRET", "MPESA_BUSINESS_SHORTCODE",
   "MPESA_PASSKEY", "MPESA_CALLBACK_URL", "EMAIL_USER", "EMAIL_PASS",
   "EMAIL_RECIPIENT"}

requiredEnvVars ==
  {"MPESA_CONSUMER_KEY", "MPESA_CONSUMER_SECRET", "MPESA_BUSINESS_SHORTCODE",
   "MPESA_PASSKEY", "MPESA_CALLBACK_URL", "MONGODB_URI", "EMAIL_USER",
   "EMAIL_PASS", "EMAIL_RECIPIENT"}

\* the names the server reads from process.env; MPESA_API_BASE_URL has a
\* default (|| "https://sandbox.safaricom.co.ke")
EnvVars == requiredEnvVars \cup {"MPESA_API_BASE_URL"}

\* requiredEnvVars.filter((key) => !process.env[key]), e the names that are set
missingEnvVars(e) == {key \in requiredEnvVars : key \notin e}

\* no call of normalizePhoneNumber under observation
NoNorm == [phone |-> NoText, calls |-> 0, out |-> NoText]

\* a number as parseFloat returns it: NaN, or sign, whole part and the
\* digits after the point without trailing zeros
NaN == [nan |-> TRUE, neg |-> FALSE, whole |-> 0, frac |-> <<>>]

\* no amount, no error and no captive-portal page under observation
NoAmt == [input |-> NoText, step |-> "none", Amount |-> NaN]
NoErr == [step |-> "none"]
NoClient == [step |-> "none"]

Serving == proc = "serving"

\* the server is configured, has passed the check and listens
Init ==
  /\ payments = <<>>
  /\ now = 0
  /\ queue = <<>>
  /\ last = NoResp
  /\ inflight = <<>>
  /\ norm = NoNorm
  /\ amt = NoAmt
  /\ err = NoErr
  /\ client = NoClient
  /\ env = EnvVars
  /\ proc = "serving"

\* the process is launched with any subset of the names set
InitStartup ==
  /\ payments = <<>>
  /\ now = 0
  /\ queue = <<>>
  /\ last = NoResp
  /\ inflight = <<>>
  /\ norm = NoNorm
  /\ amt = NoAmt
  /\ err = NoErr
  /\ client = NoClient
  /\ env \in SUBSET EnvVars
  /\ proc = "starting"

\* the critical environment variable check: process.exit(1) if a required
\* name is missing
Startup ==
  /\ proc = "starting"
  /\ proc' = IF missingEnvVars(env) # {} THEN "exit1" ELSE "serving"
  /\ UNCHANGED <<payments, now, queue, last, inflight, norm, amt, err, client, env>>

(***************************************************************************)
(* POST /api/process_payment                                               *)
(***************************************************************************)
\* await newPayment.save() on collection coll at time t, and the response
SavePayment(coll, stk, amount, phone, packageDescription, storeUp, t) ==
  LET doc == NewPayment(stk.MerchantRequestID, stk.CheckoutRequestID, amount,
                        phone, packageDescription, t)
      saved == Append(coll, doc)
  IN IF storeUp /\ UniqueOk(saved)
     THEN [coll |-> saved,
           resp |-> [op |-> "process_payment", status |-> 200, success |-> TRUE,
                     message |-> "Payment request sent successfully",
                     checkoutRequestID |-> stk.CheckoutRequestID,
                     calls |-> Calls(TRUE, TRUE)]]
     ELSE [coll |-> coll,
           resp |-> InternalError("process_payment", Calls(TRUE, TRUE))]

InvalidAmount_never(amount) == FALSE

\* isNaN(amount) || amount <= 0, on an amount that is a number
InvalidAmount(amount) == amount <= 0

\* the collection the handler leaves and the response it sends
ProcessPaymentOutcome(coll, amount, phone, packageDescription, token, stk, storeUp, t) ==
  LET op == "process_payment"
      normalizedPhone == normalizePhoneNumber(phone)
  IN IF amount = 0 \/ phone = NoText \/ packageDescription = NoText
     THEN [coll |-> coll,
           resp |-> ApiError(op, 400, "Missing required payment details", Calls(FALSE, FALSE))]
     ELSE IF InvalidAmount(amount)
     THEN [coll |-> coll,
           resp |-> ApiError(op, 400, "Invalid amount provided", Calls(FALSE, FALSE))]
     ELSE IF normalizedPhone = NoText
     THEN [coll |-> coll,
           resp |-> ApiError(op, 400, "Invalid phone number format", Calls(FALSE, FALSE))]
     ELSE IF ~token.ok
     THEN [coll |-> coll,
           resp |-> ApiError(op, token.status, "Failed to authenticate with M-Pesa",
                             Calls(TRUE, FALSE))]
     ELSE IF ~token.token
     THEN [coll |-> coll,
           resp |-> ApiError(op, 500, "No access token received", Calls(TRUE, FALSE))]
     ELSE IF ~StkAccepted(stk)
     THEN [coll |-> coll,
           resp |-> ApiError(op, 400,
                             <<"Payment initiation failed: ", StkErrorMessage(stk)>>,
                             Calls(TRUE, TRUE))]
     ELSE SavePayment(coll, stk, amount, normalizedPhone, packageDescription, storeUp, t)

\* the request passes the input validation
ValidRequest(req) ==
  /\ req.amount > 0
  /\ req.phone # NoText
  /\ req.packageDescription # NoText
  /\ normalizePhoneNumber(req.phone) # NoText

\* the provider and the store answer only the calls the handler makes
ProcessPayment ==
  \E req \in PaymentRequests :
    \E token \in IF ValidRequest(req)
                 THEN TokenOutcomes ELSE {CHOOSE o \in TokenOutcomes : TRUE} :
      \E stk \in IF ValidRequest(req) /\ token.ok /\ token.token
                 THEN StkOutcomes ELSE {CHOOSE o \in StkOutcomes : TRUE} :
        \E storeUp \in IF ValidRequest(req) /\ token.ok /\ token.token
                          /\ StkAccepted(stk)
                       THEN BOOLEAN ELSE {TRUE} :
          LET out == ProcessPaymentOutcome(payments, req.amount, req.phone,
                                           req.packageDescription, token, stk,
                                           storeUp, now)
          IN /\ Serving
             /\ Len(out.coll) <= MaxPayments
             /\ payments' = out.coll
             /\ last' = IF out.coll # payments THEN out.resp ELSE last
             /\ UNCHANGED <<now, queue, inflight, norm, amt, err, client, env, proc>>

(***************************************************************************)
(* POST /api/callback: the acknowledgment, then setImmediate               *)
(***************************************************************************)
CallbackAck_late == [status |-> 0, MpesaResponse |-> None]

\* what the handler has answered when it schedules the background task
\* (status 0: nothing yet)
CallbackAck == [status |-> 200, MpesaResponse |-> "Callback received"]

Callback ==
  \E body \in CallbackBodies :
    /\ Serving
    /\ Len(queue) < MaxQueue
    /\ last' = [op |-> "callback", status |-> CallbackAck.status,
                MpesaResponse |-> CallbackAck.MpesaResponse]
    /\ queue' = Append(queue, [body |-> body, acked |-> CallbackAck.status])
    /\ UNCHANGED <<payments, now, inflight, norm, amt, err, client, env, proc>>

(***************************************************************************)
(* POST /api/callback: the background task (Phase B)                       *)
(***************************************************************************)
PhaseBError_uncaught(coll, dbAccessed) ==
  [coll |-> coll, dbAccessed |-> dbAccessed, log |-> "error", alive |-> FALSE]

\* catch (error) { console.error(...) }: the error is logged and the task ends
PhaseBError(coll, dbAccessed) ==
  [coll |-> coll, dbAccessed |-> dbAccessed, log |-> "error", alive |-> TRUE]

PhaseBOutcomes_storeFirst(coll, body, t) ==
  IF ~body.hasStkCallback
  THEN {[coll |-> coll, dbAccessed |-> TRUE, log |-> "not_found", alive |-> TRUE]}
  ELSE IF body.ResultCode = 0 /\ ~body.CallbackMetadata.iterable
  THEN {PhaseBError(coll, FALSE)}
  ELSE IF body.ResultCode = 0
  THEN {IF r.threw THEN PhaseBError(r.coll, TRUE)
        ELSE [coll |-> r.coll, dbAccessed |-> TRUE,
              log |-> IF r.found THEN "updated" ELSE "not_found", alive |-> TRUE] :
          r \in FindOneAndUpdateResults(coll, body, UpdateFields(body, t),
                                        CallbackOptions, t)}
       \cup {PhaseBError(coll, TRUE)}
  ELSE {[coll |-> coll, dbAccessed |-> FALSE, log |-> "not_successful", alive |-> TRUE]}

\* the outcomes of one background task on collection coll at time t: the
\* collection it leaves, whether it called the store, what it logged, and
\* whether the process survives it
PhaseBOutcomes(coll, body, t) ==
  IF ~body.hasStkCallback
  THEN {[coll |-> coll, dbAccessed |-> FALSE, log |-> "invalid", alive |-> TRUE]}
  ELSE IF body.ResultCode = 0 /\ ~body.CallbackMetadata.iterable
  THEN {PhaseBError(coll, FALSE)}
  ELSE IF body.ResultCode = 0
  THEN {IF r.threw THEN PhaseBError(r.coll, TRUE)
        ELSE [coll |-> r.coll, dbAccessed |-> TRUE,
              log |-> IF r.found THEN "updated" ELSE "not_found", alive |-> TRUE] :
          r \in FindOneAndUpdateResults(coll, body, UpdateFields(body, t),
                                        CallbackOptions, t)}
       \cup {PhaseBError(coll, TRUE)}
  ELSE {[coll |-> coll, dbAccessed |-> FALSE, log |-> "not_successful", alive |-> TRUE]}

\* the tasks are started in arrival order, their store operations complete in
\* any order
PhaseB ==
  \E i \in 1..Len(queue) :
    \E out \in PhaseBOutcomes(payments, queue[i].body, now) :
      /\ Serving
      /\ Len(out.coll) <= MaxPayments
      /\ payments' = out.coll
      /\ last' = [op |-> "phase_b", acked |-> queue[i].acked,
                  dbAccessed |-> out.dbAccessed, log |-> out.log]
      /\ queue' = SubSeq(queue, 1, i - 1) \o SubSeq(queue, i + 1, Len(queue))
      /\ proc' = IF out.alive THEN proc ELSE "crashed"
      /\ UNCHANGED <<now, inflight, norm, amt, err, client, env>>

(***************************************************************************)
(* GET /api/check_payment_status/:checkoutRequestID                        *)
(***************************************************************************)
StatusMessage_pending(responseStatus) == "Status is pending."

StatusMessage(responseStatus) ==
  CASE responseStatus = "Completed" ->
         "Your payment was successful. Kindly wait for service fulfillment."
    [] responseStatus = "Cancelled" -> "You cancelled the M-Pesa payment prompt."
    [] responseStatus = "Failed" -> "The M-Pesa payment failed. Please try again."
    [] responseStatus = "Timeout" -> "The M-Pesa payment timed out. Please try again."
    [] OTHER -> "Status is pending."

NotFoundResponse_404(op) ==
  [op |-> op, status |-> 404, success |-> FALSE, payment |-> None,
   message |-> "Payment record not found."]

\* the answer when findOne returns no document
NotFoundResponse(op) ==
  [op |-> op, status |-> 200, success |-> TRUE, payment |-> "Processing",
   message |-> "Payment record not found. Awaiting callback."]

CheckPaymentStatusResponse(coll, checkoutRequestID, storeUp) ==
  LET op == "check_payment_status"
      found == {i \in 1..Len(coll) : coll[i].CheckoutRequestID = checkoutRequestID}
  IN IF ~storeUp THEN InternalError(op, Calls(FALSE, FALSE))
     ELSE IF found = {}
     THEN NotFoundResponse(op)
     ELSE LET payment == coll[CHOOSE i \in found : TRUE] IN
          [op |-> op, status |-> 200, success |-> TRUE,
           payment |-> payment.status, message |-> StatusMessage(payment.status)]

CheckPaymentStatus ==
  \E c \in CheckoutIds, storeUp \in BOOLEAN :
    /\ Serving
    /\ CheckPaymentStatusResponse(payments, c, storeUp).status \in {200, 500}
    /\ UNCHANGED vars

(***************************************************************************)
(* GET /api/mikrotik/check_payment                                         *)
(***************************************************************************)
Bandwidth_caseSensitive(desc) ==
  IF Includes(desc, <<"u", "n", "l", "i", "m", "i", "t", "e", "d">>)
  THEN "unlimited"
  ELSE IF \/ Includes(desc, <<"3", "m", "b", "p", "s">>)
          \/ Includes(desc, <<"v", "y", "b", "z">>)
  THEN "3mbps"
  ELSE "default"

Bandwidth(desc) ==
  IF Includes(ToLowerCase(desc), <<"u", "n", "l", "i", "m", "i", "t", "e", "d">>)
  THEN "unlimited"
  ELSE IF \/ Includes(ToLowerCase(desc), <<"3", "m", "b", "p", "s">>)
          \/ Includes(ToLowerCase(desc), <<"v", "y", "b", "z">>)
  THEN "3mbps"
  ELSE "default"

LatestCompleted_anyStatus(coll, phone) ==
  LET found == {i \in 1..Len(coll) : coll[i].PhoneNumber = phone}
  IN IF found = {} THEN 0
     ELSE CHOOSE i \in found : \A j \in found : j <= i

LatestCompleted_oldest(coll, phone) ==
  LET found == {i \in 1..Len(coll) :
                  coll[i].PhoneNumber = phone /\ coll[i].status = "Completed"}
  IN IF found = {} THEN 0
     ELSE CHOOSE i \in found : \A j \in found : i <= j

\* Payment.findOne({PhoneNumber, status: "Completed"}).sort({createdAt: -1}):
\* the index of the document found, 0 when there is none.  Documents are
\* appended in creation order, so among equal createdAt the later one wins.
LatestCompleted(coll, phone) ==
  LET found == {i \in 1..Len(coll) :
                  coll[i].PhoneNumber = phone /\ coll[i].status = "Completed"}
  IN IF found = {} THEN 0
     ELSE CHOOSE i \in found :
            \A j \in found : coll[j].createdAt < coll[i].createdAt
                             \/ (coll[j].createdAt = coll[i].createdAt /\ j <= i)

CheckEntitlementResponse(coll, phone, storeUp, t) ==
  LET op == "check_payment"
      normalizedPhone == normalizePhoneNumber(phone)
      k == LatestCompleted(coll, normalizedPhone)
  IN IF phone = NoText
     THEN [op |-> op, status |-> 400, success |-> FALSE,
           message |-> "Phone number is required."]
     ELSE IF normalizedPhone = NoText
     THEN [op |-> op, status |-> 400, success |-> FALSE,
           message |-> "Invalid phone number format."]
     ELSE IF ~storeUp \/ (k # 0 /\ coll[k].packageDescription = NoText)
     THEN InternalError(op, Calls(FALSE, FALSE))
     ELSE IF k = 0
     THEN [op |-> op, status |-> 200, success |-> TRUE, paid |-> FALSE,
           message |-> None]
     ELSE LET payment == coll[k]
              expiresAt == IF payment.expiresAt # NoDate THEN payment.expiresAt
                           ELSE payment.createdAt
                                + durationHoursOf(payment.packageDescription)
          IN IF t < expiresAt
             THEN [op |-> op, status |-> 200, success |-> TRUE, paid |-> TRUE,
                   amount |-> payment.Amount,
                   plan |-> payment.packageDescription,
                   bandwidth |-> Bandwidth(payment.packageDescription),
                   paidAt |-> payment.createdAt, expiresAt |-> expiresAt,
                   receipt |-> payment.MpesaReceiptNumber]
             ELSE [op |-> op, status |-> 200, success |-> TRUE, paid |-> FALSE,
                   message |-> "Subscription expired."]

CheckEntitlement ==
  \E phone \in PhoneInputs, storeUp \in BOOLEAN :
    /\ Serving
    /\ CheckEntitlementResponse(payments, phone, storeUp, now).status \in {200, 400, 500}
    /\ UNCHANGED vars

(***************************************************************************)
(* Time                                                                    *)
(***************************************************************************)
Tick ==
  /\ now < MaxTime
  /\ now' = now + 1
  /\ last' = NoResp
  /\ UNCHANGED <<payments, queue, inflight, norm, amt, err, client, env, proc>>

(***************************************************************************)
(* normalizePhoneNumber applied to drawn inputs                            *)
(***************************************************************************)
\* inputs: optional blanks and "+", a prefix, the digit after it, a tail of
\* seven, eight or nine characters, and the three numbers of the examples
PhoneStrings ==
  { pad1 \o plus \o prefix \o second \o tail \o pad2 :
      pad1 \in {<<>>, <<" ">>}, plus \in {<<>>, <<"+">>},
      prefix \in {<<"0">>, <<"2", "5", "4">>, <<"2", "5", "5">>, <<>>},
      second \in {<<"7">>, <<"1">>, <<"2">>},
      tail \in {<<"1", "2", "3", "4", "5", "6", "7", "8">>,
                <<"1", "2", "3", "4", "5", "6", "7">>,
                <<"1", "2", "3", "4", "5", "6", "7", "8", "9">>,
                <<"1", "2", "3", "4", "5", "6", "7", "a">>},
      pad2 \in {<<>>, <<" ">>} }
  \cup {Phone07, Phone254, PhoneShort}

InitNormalize ==
  /\ payments = <<>>
  /\ now = 0
  /\ queue = <<>>
  /\ last = NoResp
  /\ inflight = <<>>
  /\ norm \in {[phone |-> x, calls |-> 0, out |-> NoText] : x \in PhoneStrings}
  /\ amt = NoAmt
  /\ err = NoErr
  /\ client = NoClient
  /\ env = EnvVars
  /\ proc = "serving"

\* normalizePhoneNumber(phone)
NormalizePhone ==
  /\ norm.calls = 0
  /\ norm' = [phone |-> norm.phone, calls |-> 1,
              out |-> normalizePhoneNumber(norm.phone)]
  /\ UNCHANGED <<payments, now, queue, last, inflight, amt, err, client, env, proc>>

\* normalizePhoneNumber applied to a number it returned
NormalizeAgain ==
  /\ norm.calls = 1
  /\ norm.out # NoText
  /\ norm' = [phone |-> norm.phone, calls |-> 2,
              out |-> normalizePhoneNumber(norm.out)]
  /\ UNCHANGED <<payments, now, queue, last, inflight, amt, err, client, env, proc>>

NextNormalize ==
  \/ NormalizePhone
  \/ NormalizeAgain

SpecNormalize == InitNormalize /\ [][NextNormalize]_vars

(***************************************************************************)
(* POST /api/process_payment: the amount, from the request body to the     *)
(* provider and the record                                                 *)
(***************************************************************************)
\* the length of the longest prefix of s made of digits
RECURSIVE DigitsPrefix(_)
DigitsPrefix(s) ==
  IF s # <<>> /\ Head(s) \in Digits THEN 1 + DigitsPrefix(Tail(s)) ELSE 0

RECURSIVE StripZeros(_)
StripZeros(s) ==
  IF s # <<>> /\ s[Len(s)] = "0" THEN StripZeros(SubSeq(s, 1, Len(s) - 1)) ELSE s

\* parseFloat(string): blanks, a sign, digits, a point and digits; what
\* follows the longest such prefix is ignored, and NaN when there is none.
\* (Exponents are not among the inputs drawn.)
parseFloat(string) ==
  LET t == TrimLeft(string)
      neg == t # <<>> /\ Head(t) = "-"
      r == IF t # <<>> /\ Head(t) \in {"-", "+"} THEN Tail(t) ELSE t
      n == DigitsPrefix(r)
      m == IF Len(r) > n /\ r[n + 1] = "." THEN DigitsPrefix(SubSeq(r, n + 2, Len(r)))
           ELSE 0
  IN IF n = 0 /\ m = 0 THEN NaN
     ELSE [nan |-> FALSE, neg |-> neg, whole |-> ToNumber(SubSeq(r, 1, n)),
           frac |-> StripZeros(SubSeq(r, n + 2, n + 1 + m))]

isNaN(a) == a.nan

\* amount <= 0
NotPositive(a) == a.neg \/ (a.whole = 0 /\ a.frac = <<>>)

\* amounts of a request body, as text: optional blank and sign, a whole
\* part, a fractional part, and a trailing character
AmountStrings ==
  { pad \o sign \o whole \o frac \o rest :
      pad \in {<<>>, <<" ">>}, sign \in {<<>>, <<"-">>},
      whole \in {<<>>, <<"0">>, <<"5">>, <<"2", "0">>, <<"0", "0", "7">>},
      frac \in {<<>>, <<".">>, <<".", "0">>, <<".", "5">>, <<".", "5", "0">>,
                <<".", "2", "5">>},
      rest \in {<<>>, <<"a">>} }

InitAmount ==
  /\ payments = <<>>
  /\ now = 0
  /\ queue = <<>>
  /\ last = NoResp
  /\ inflight = <<>>
  /\ norm = NoNorm
  /\ amt \in {[input |-> x, step |-> "request", Amount |-> NaN] : x \in AmountStrings}
  /\ err = NoErr
  /\ client = NoClient
  /\ env = EnvVars
  /\ proc = "serving"

\* the handler from the request to stkPushPayload, for a request whose phone
\* and plan are valid: "rejected" is an APIError 400, "submitted" the push
\* request sent with Amount: amount
SubmitAmount ==
  /\ amt.step = "request"
  /\ amt' = IF amt.input = <<>>
            THEN [amt EXCEPT !.step = "rejected"]
            ELSE LET amount == parseFloat(amt.input)
                 IN IF isNaN(amount) \/ NotPositive(amount)
                    THEN [amt EXCEPT !.step = "rejected"]
                    ELSE [amt EXCEPT !.step = "submitted", !.Amount = amount]
  /\ UNCHANGED <<payments, now, queue, last, inflight, norm, err, client, env, proc>>

\* the provider accepts and the record is saved with Amount: amount
StoreAmount ==
  /\ amt.step = "submitted"
  /\ amt' = [amt EXCEPT !.step = "stored"]
  /\ UNCHANGED <<payments, now, queue, last, inflight, norm, err, client, env, proc>>

NextAmount ==
  \/ SubmitAmount
  \/ StoreAmount

SpecAmount == InitAmount /\ [][NextAmount]_vars

(***************************************************************************)
(* The centralized error handling middleware                               *)
(***************************************************************************)
\* errors passed to next(error): an APIError with its status and details, a
\* store ValidationError with the messages of err.errors, a CastError with
\* its path, and any other Error; details and errors are lists of texts,
\* <<"null">> is null and NoText is undefined
Errors ==
  {[name |-> "APIError", isAPIError |-> TRUE, statusCode |-> sc, message |-> "api",
    details |-> d, errors |-> NoText, path |-> None] :
     sc \in {400, 404, 500, 503},
     d \in {<<"null">>, <<"provider body A">>, <<"provider body B">>}}
  \cup {[name |-> "ValidationError", isAPIError |-> FALSE, statusCode |-> 0,
          message |-> "Payment validation failed", details |-> NoText,
          errors |-> e, path |-> None] :
           e \in {NoText, <<"Cast to Number failed for path Amount">>,
                  <<"Cast to string failed for path packageDescription">>,
                  <<"status is not a valid enum value", "Cast to Number failed for path Amount">>}}
  \cup {[name |-> "CastError", isAPIError |-> FALSE, statusCode |-> 0,
          message |-> "Cast failed", details |-> NoText, errors |-> NoText,
          path |-> pth] : pth \in {None, "_id", "Amount"}}
  \cup {[name |-> "Error", isAPIError |-> FALSE, statusCode |-> 0,
          message |-> m, details |-> NoText, errors |-> NoText, path |-> None] :
           m \in {"E11000 duplicate key", "connection lost"}}

\* values of process.env.NODE_ENV (None: not set)
NodeEnvs == {"production", "development", None}

\* res.status(statusCode).json({ success: false, message, error }); an
\* error of NoText is left out of the JSON
ErrorResponse(e, nodeEnv) ==
  IF e.isAPIError
  THEN [status |-> e.statusCode, success |-> FALSE, message |-> <<e.message>>,
        error |-> IF nodeEnv # "production" THEN e.details ELSE NoText]
  ELSE IF e.name = "ValidationError" /\ e.errors # NoText
  THEN [status |-> 400, success |-> FALSE, message |-> <<"Data validation failed.">>,
        error |-> e.errors]
  ELSE IF e.name = "CastError" /\ e.path # None
  THEN [status |-> 400, success |-> FALSE,
        message |-> <<"Invalid format for ", e.path, ".">>, error |-> NoText]
  ELSE [status |-> 500, success |-> FALSE,
        message |-> <<"An internal server error occurred. Please try again later.">>,
        error |-> NoText]

InitErrors ==
  /\ payments = <<>>
  /\ now = 0
  /\ queue = <<>>
  /\ last = NoResp
  /\ inflight = <<>>
  /\ norm = NoNorm
  /\ amt = NoAmt
  /\ err \in {[step |-> "thrown", error |-> e, NODE_ENV |-> n] :
                e \in Errors, n \in NodeEnvs}
  /\ client = NoClient
  /\ env = EnvVars
  /\ proc = "serving"

\* app.use((err, req, res, next) => ...)
ErrorMiddleware ==
  /\ err.step = "thrown"
  /\ err' = [step |-> "answered", error |-> err.error, NODE_ENV |-> err.NODE_ENV,
             response |-> ErrorResponse(err.error, err.NODE_ENV)]
  /\ UNCHANGED <<payments, now, queue, last, inflight, norm, amt, client, env, proc>>

NextErrors == ErrorMiddleware

SpecErrors == InitErrors /\ [][NextErrors]_vars

(***************************************************************************)
(* The captive-portal page (src/unnamed/part_001).  The server is its      *)
(* environment: its answers are chosen freely among those it can give.     *)
(***************************************************************************)
\* /^(0(1|7)\d{8})$/, then "254" + phone.substring(1)
validateAndNormalizePhoneNumber(phone) ==
  LET p == Trim(phone)
  IN IF Len(p) = 10 /\ p[1] = "0" /\ p[2] \in {"1", "7"} /\ AllDigits(SubSeq(p, 3, 10))
     THEN <<"2", "5", "4">> \o Substring(p, 1)
     ELSE NoText

ClearInterval_noop(timers, id) == timers

\* clearInterval(id) on the page's active timers; id 0 is null
ClearInterval(timers, id) == timers \ {id}

\* resetUI(): the popups are hidden, the phone field is emptied, the timer
\* in state.pollingInterval is cleared
ResetUI(c) ==
  [c EXCEPT !.popup = "none",
            !.phoneInput = NoText,
            !.timers = IF c.pollingInterval # 0
                       THEN ClearInterval(c.timers, c.pollingInterval) ELSE c.timers,
            !.pollingInterval = 0]

\* displayUserMessage(message, type): resetUI(), then the message popup
DisplayUserMessage(c) == [ResetUI(c) EXCEPT !.popup = "message"]

\* the CheckoutRequestID the server answers to the n-th accepted submission
CheckoutIdOf(n) == IF n = 1 THEN "ws_CO_1" ELSE "ws_CO_2"

\* the page after DOMContentLoaded and init(); session says whether the URL
\* carried mac and link-login-only
InitClient ==
  /\ payments = <<>>
  /\ now = 0
  /\ queue = <<>>
  /\ last = NoResp
  /\ inflight = <<>>
  /\ norm = NoNorm
  /\ amt = NoAmt
  /\ err = NoErr
  /\ client \in {[step |-> "page", popup |-> "none", phoneInput |-> NoText,
                   plan |-> NoText, pollingInterval |-> 0,
                   checkoutRequestID |-> None, session |-> ses,
                   timers |-> {}, started |-> 0, submitted |-> 0,
                   submits |-> <<>>, entered |-> <<>>, polls |-> <<>>,
                   logins |-> <<>>, event |-> [kind |-> "init"]] :
                    ses \in BOOLEAN}
  /\ env = EnvVars
  /\ proc = "serving"

ClientUnchanged ==
  UNCHANGED <<payments, now, queue, last, inflight, norm, amt, err, env, proc>>

\* showPaymentPopupHandler: the plan of the button goes to the form's
\* dataset, resetUI(), the payment popup is shown
ShowPaymentPopup ==
  \E plan \in Plans :
    /\ client.step = "page"
    /\ client.popup = "none"
    /\ client' = [ResetUI([client EXCEPT !.plan = plan])
                    EXCEPT !.popup = "payment", !.event = [kind |-> "reset"]]
    /\ ClientUnchanged

\* the user fills the phone field of the payment popup
TypePhone ==
  \E phone \in {Phone07, PhoneShort} :
    /\ client.step = "page"
    /\ client.popup = "payment"
    /\ client.phoneInput # phone
    /\ client' = [client EXCEPT !.phoneInput = phone, !.event = [kind |-> "type"]]
    /\ ClientUnchanged

\* handlePaymentSubmission up to the fetch of /api/process_payment
HandlePaymentSubmission ==
  LET normalizedPhone == validateAndNormalizePhoneNumber(client.phoneInput)
      shown == DisplayUserMessage(client)
  IN /\ client.step = "page"
     /\ client.popup = "payment"
     /\ client.submitted < MaxSubmissions
     /\ client' =
          IF normalizedPhone = NoText \/ client.plan = NoText
          THEN [shown EXCEPT !.event = [kind |-> "reset"]]
          ELSE [shown EXCEPT
                  !.submitted = client.submitted + 1,
                  !.submits = Append(client.submits,
                                     [phone |-> normalizedPhone,
                                      typed |-> client.phoneInput]),
                  !.event = [kind |-> "reset"]]
     /\ ClientUnchanged

\* handlePaymentSubmission from the answer of /api/process_payment on
SubmissionResponse ==
  \E k \in 1..Len(client.submits), answer \in {"ok", "refused", "network"} :
    LET rest == SubSeq(client.submits, 1, k - 1)
                  \o SubSeq(client.submits, k + 1, Len(client.submits))
        id == client.started + 1
    IN /\ client.step = "page"
       /\ client' =
            IF answer = "ok"
            THEN [client EXCEPT
                    !.submits = rest,
                    !.checkoutRequestID = CheckoutIdOf(id),
                    !.timers = (IF client.pollingInterval # 0
                                THEN ClearInterval(client.timers, client.pollingInterval)
                                ELSE client.timers) \cup {id},
                    !.pollingInterval = id,
                    !.started = id,
                    !.entered = Append(client.entered,
                                       [checkout |-> CheckoutIdOf(id),
                                        phone |-> client.submits[k].phone,
                                        typed |-> client.submits[k].typed]),
                    !.event = [kind |-> "timer_set"]]
            ELSE [DisplayUserMessage(client) EXCEPT
                    !.submits = rest, !.event = [kind |-> "reset"]]
       /\ ClientUnchanged

\* an active timer fires: pollPaymentStatus up to its fetch
TimerFires ==
  \E t \in client.timers :
    /\ client.step = "page"
    /\ client.checkoutRequestID # None
    /\ Len(client.polls) < MaxPolls
    /\ client' = [client EXCEPT
                    !.polls = Append(client.polls,
                                     [checkout |-> client.checkoutRequestID]),
                    !.event = [kind |-> "poll_sent"]]
    /\ ClientUnchanged

\* the answers a status request can get: a status, or "fail" for a request
\* or a response.json() that throws
PollResults == {"Processing", "Completed", "Cancelled", "Failed", "Timeout", "fail"}

\* mikrotikLogin() called on page c for the attempt checkout: it reads the
\* phone field, and without the session information it gives up
MikrotikLoginStart(c, checkout) ==
  LET call == [checkout |-> checkout, phone |-> c.phoneInput,
               step |-> IF c.session THEN "checking" ELSE "no_session"]
      d == IF c.session THEN c ELSE DisplayUserMessage(c)
  IN [d EXCEPT !.logins = Append(c.logins, call)]

\* pollPaymentStatus from the answer of /api/check_payment_status on
PollResponse ==
  \E k \in 1..Len(client.polls), result \in PollResults :
    LET rest == SubSeq(client.polls, 1, k - 1)
                  \o SubSeq(client.polls, k + 1, Len(client.polls))
        cleared == [client EXCEPT
                      !.polls = rest,
                      !.timers = ClearInterval(client.timers, client.pollingInterval),
                      !.pollingInterval = 0]
    IN /\ client.step = "page"
       /\ result = "Completed" => Len(client.logins) < MaxLogins
       /\ client' =
            [(IF result = "Completed"
              THEN MikrotikLoginStart(DisplayUserMessage(cleared),
                                      client.polls[k].checkout)
              ELSE IF result \in {"Cancelled", "Failed", "Timeout", "fail"}
              THEN DisplayUserMessage(cleared)
              ELSE [client EXCEPT !.polls = rest])
             EXCEPT !.event = [kind |-> "poll_response", result |-> result]]
       /\ ClientUnchanged

\* mikrotikLogin from the answer of /api/mikrotik/check_payment on: the
\* login form is submitted, or a message is shown.  The server answers 400
\* to an empty phone.
LoginResponse ==
  \E k \in 1..Len(client.logins) :
    \E paid \in IF client.logins[k].phone = NoText THEN {FALSE} ELSE BOOLEAN :
      /\ client.step = "page"
      /\ client.logins[k].step = "checking"
      /\ client' =
           IF paid
           THEN [client EXCEPT !.logins[k].step = "submitted", !.step = "gateway",
                               !.event = [kind |-> "login_submitted"]]
           ELSE [DisplayUserMessage(client) EXCEPT
                   !.logins[k].step = "refused", !.event = [kind |-> "reset"]]
      /\ ClientUnchanged

\* handleCloseEvent: a close button or the overlay
CloseEvent ==
  /\ client.step = "page"
  /\ client.popup # "none"
  /\ client' = [ResetUI(client) EXCEPT !.event = [kind |-> "reset"]]
  /\ ClientUnchanged

NextClient ==
  \/ ShowPaymentPopup
  \/ TypePhone
  \/ HandlePaymentSubmission
  \/ SubmissionResponse
  \/ TimerFires
  \/ PollResponse
  \/ LoginResponse
  \/ CloseEvent

SpecClient == InitClient /\ [][NextClient]_vars

Next ==
  \/ ProcessPayment
  \/ Callback
  \/ PhaseB
  \/ CheckPaymentStatus
  \/ CheckEntitlement
  \/ Tick

Spec == Init /\ [][Next]_vars

\* POST /api/callback called again with a body whose background task is
\* still pending (the provider retries): a second task for the same key
CallbackRetry ==
  \E k \in 1..Len(queue) :
    /\ Serving
    /\ Len(queue) < MaxQueue + MaxRedeliveries
    /\ last' = [op |-> "callback", status |-> CallbackAck.status,
                MpesaResponse |-> CallbackAck.MpesaResponse]
    /\ queue' = Append(queue, [body |-> queue[k].body, acked |-> CallbackAck.status])
    /\ UNCHANGED <<payments, now, inflight, norm, amt, err, client, env, proc>>

NextRetry ==
  \/ Next
  \/ CallbackRetry

SpecRetry == Init /\ [][NextRetry]_vars

\* POST /api/process_payment up to the provider's acceptance: the handler
\* has the answer of the push-payment endpoint and has not yet saved
ProcessPaymentAccept ==
  \E req \in PaymentRequests, stk \in StkOutcomes :
    /\ Serving
    /\ ValidRequest(req)
    /\ StkAccepted(stk)
    /\ Len(inflight) < MaxInflight
    /\ Len(payments) + Len(inflight) < MaxPayments
    /\ inflight' = Append(inflight,
                          [stk |-> stk, amount |-> req.amount,
                           phone |-> normalizePhoneNumber(req.phone),
                           packageDescription |-> req.packageDescription])
    /\ UNCHANGED <<payments, now, queue, last, norm, amt, err, client, env, proc>>

\* the rest of the handler: await newPayment.save() and the response
ProcessPaymentSave ==
  \E k \in 1..Len(inflight), storeUp \in BOOLEAN :
    LET a == inflight[k]
        out == SavePayment(payments, a.stk, a.amount, a.phone,
                           a.packageDescription, storeUp, now)
    IN /\ Serving
       /\ payments' = out.coll
       /\ last' = IF out.coll # payments THEN out.resp ELSE last
       /\ inflight' = SubSeq(inflight, 1, k - 1) \o SubSeq(inflight, k + 1, Len(inflight))
       /\ UNCHANGED <<now, queue, norm, amt, err, client, env, proc>>

\* the handlers with the initiation in its two steps, so that the webhook
\* can run between them
NextInterleaved ==
  \/ ProcessPaymentAccept
  \/ ProcessPaymentSave
  \/ Callback
  \/ PhaseB
  \/ CheckPaymentStatus
  \/ CheckEntitlement
  \/ Tick

SpecInterleaved == Init /\ [][NextInterleaved]_vars

\* the process from its launch: the environment check, then the server
NextStartup ==
  \/ Startup
  \/ Next

SpecStartup == InitStartup /\ [][NextStartup]_vars

(***************************************************************************)
(* Properties                                                              *)
(***************************************************************************)
Remove(q, k) == SubSeq(q, 1, k - 1) \o SubSeq(q, k + 1, Len(q))

\* this step is a background task, run on the callback body b
PhaseBStepOn(b) ==
  /\ last'.op = "phase_b"
  /\ \E k \in 1..Len(queue) : queue[k].body = b /\ queue' = Remove(queue, k)

\* C1: a background task of the webhook never adds a record to the
\* collection, whatever confirmation it processes: the records, and their
\* correlation identifiers, are those the initiations created.
Thm_C1_CallbackNeverCreates ==
  [][(\E b \in CallbackBodies : PhaseBStepOn(b)) =>
       /\ Len(payments') = Len(payments)
       /\ \A i \in 1..Len(payments) :
            /\ payments'[i].MerchantRequestID = payments[i].MerchantRequestID
            /\ payments'[i].CheckoutRequestID = payments[i].CheckoutRequestID]_vars

\* a success confirmation that matched no record has just been processed
Wit_C1_UnmatchedProcessed ==
  /\ last.op = "phase_b"
  /\ last.dbAccessed
  /\ last.log = "not_found"
  /\ Len(payments) >= 1


\* C2: once a record is in a terminal status, a background task for any
\* confirmation leaves its status, expiresAt and MpesaReceiptNumber as they
\* are.
Cex_C2_TerminalIsFinal ==
  [][(\E b \in CallbackBodies : PhaseBStepOn(b)) =>
       \A i \in 1..Len(payments) :
         payments[i].status \in TerminalStatuses =>
           /\ payments'[i].status = payments[i].status
           /\ payments'[i].expiresAt = payments[i].expiresAt
           /\ payments'[i].MpesaReceiptNumber = payments[i].MpesaReceiptNumber]_vars

\* the record is as a delivery of body b at time t0 leaves it
AsDelivered(doc, b, t0) ==
  /\ b.hasStkCallback
  /\ b.ResultCode = 0
  /\ QueryMatches(doc, b)
  /\ doc = SetFields(doc, UpdateFields(b, t0), t0)

\* C3: a second delivery of the payload a record already reflects leaves the
\* record equal to what the first delivery made it (status, receipt,
\* expiresAt and updatedAt included).
Cex_C3_DuplicateDeliveryIdempotent ==
  [][\A b \in CallbackBodies :
       PhaseBStepOn(b) =>
         \A i \in 1..Len(payments) :
           (\E t0 \in 0..MaxTime : AsDelivered(payments[i], b, t0)) =>
             payments'[i] = payments[i]]_vars

\* C4: a Completed record expires durationHours(its plan) after the
\* confirmation was applied, where durationHours is the ladder 3 / 7 / 14 /
\* 24, "unlimited" 24, otherwise 1.
Cex_C4_ExpiryFollowsPlan ==
  \A i \in 1..Len(payments) :
    payments[i].status = "Completed" =>
      payments[i].expiresAt
        = payments[i].updatedAt + durationHoursOf(payments[i].packageDescription)

\* C5: expiresAt is set if and only if the status is Completed.
Thm_C5_ExpiresIffCompleted ==
  \A i \in 1..Len(payments) :
    (payments[i].expiresAt # NoDate) <=> (payments[i].status = "Completed")

\* the collection holds a Completed record with an expiry next to a record
\* still in Processing without one
Wit_C5_CompletedAndProcessing ==
  /\ last.op = "phase_b"
  /\ \E i, j \in 1..Len(payments) :
       /\ payments[i].status = "Completed"
       /\ payments[i].expiresAt # NoDate
       /\ payments[j].status = "Processing"
       /\ payments[j].expiresAt = NoDate

\* C6: MpesaReceiptNumber is set if and only if the status is Completed.
Cex_C6_ReceiptIffCompleted ==
  \A i \in 1..Len(payments) :
    (payments[i].MpesaReceiptNumber # None) <=> (payments[i].status = "Completed")

\* C7: a background task that runs without error on a confirmation matching
\* a non-terminal record leaves that record in the status of the result code:
\* 0 Completed, 1032 Cancelled, the timeout code (1037) Timeout, any other
\* code Failed.
Cex_C7_StatusFromResultCode ==
  [][\A b \in CallbackBodies :
       (PhaseBStepOn(b) /\ b.hasStkCallback /\ last'.log # "error") =>
         \A i \in 1..Len(payments) :
           (/\ payments[i].status \notin TerminalStatuses
            /\ payments[i].CheckoutRequestID = b.CheckoutRequestID
            /\ payments[i].MerchantRequestID = b.MerchantRequestID) =>
             payments'[i].status
               = CASE b.ResultCode = 0 -> "Completed"
                   [] b.ResultCode = 1032 -> "Cancelled"
                   [] b.ResultCode = 1037 -> "Timeout"
                   [] OTHER -> "Failed"]_vars

\* C8: every background task, scheduled or just run, belongs to a request
\* that was answered 200 before the task could touch the store, whatever the
\* task then did.
Thm_C8_AckBeforeStore ==
  /\ \A k \in 1..Len(queue) : queue[k].acked = 200
  /\ last.op = "phase_b" => last.acked = 200

\* a background task has just failed on the store; its request was answered
Wit_C8_StoreFailedAfterAck ==
  /\ last.op = "phase_b"
  /\ last.dbAccessed
  /\ last.log = "error"
  /\ last.acked = 200

\* C9: while a Completed record is the latest Completed one of the initiating
\* phone number, its status query answers Completed and the entitlement query
\* answers paid: true until the plan's duration after the confirmation (3
\* hours for "3-Hour Unlimited").
Cex_C9_EntitledForPlanDuration ==
  \A i \in 1..Len(payments) :
    (/\ payments[i].status = "Completed"
     /\ payments[i].PhoneNumber = Phone254
     /\ LatestCompleted(payments, Phone254) = i) =>
      /\ CheckPaymentStatusResponse(payments, payments[i].CheckoutRequestID, TRUE).payment
           = "Completed"
      /\ now < payments[i].updatedAt
                 + (IF payments[i].packageDescription = Plan3HU THEN 3
                    ELSE durationHoursOf(payments[i].packageDescription)) =>
           CheckEntitlementResponse(payments, Phone07, TRUE, now).paid

\* C10: after a background task has run without error on a confirmation with
\* result code 1032 for a record in Processing, the status query of that
\* record answers Cancelled and the entitlement query of its phone number
\* answers paid: false.
Cex_C10_CancelledAfter1032 ==
  [][\A b \in CallbackBodies :
       (PhaseBStepOn(b) /\ b.ResultCode = 1032 /\ last'.log # "error") =>
         \A i \in 1..Len(payments) :
           (/\ payments[i].status = "Processing"
            /\ payments[i].CheckoutRequestID = b.CheckoutRequestID
            /\ payments[i].MerchantRequestID = b.MerchantRequestID) =>
             /\ CheckPaymentStatusResponse(payments', b.CheckoutRequestID, TRUE).payment
                  = "Cancelled"
             /\ ~CheckEntitlementResponse(payments', Phone07, TRUE, now').paid]_vars

\* the Completed records stored under the normalized phone number
CompletedFor(phone) ==
  {i \in 1..Len(payments) :
     payments[i].status = "Completed" /\ payments[i].PhoneNumber = phone}

\* the most recently created of them: records are stored in creation order
NewestCompletedFor(phone) ==
  CHOOSE i \in CompletedFor(phone) : \A j \in CompletedFor(phone) : j <= i

\* C11: the entitlement query of a phone number answers paid: true exactly
\* when the most recently created Completed record of the normalized number
\* exists and now is strictly before its expiresAt; it answers paid: false,
\* "Subscription expired." when that record exists and now >= expiresAt, and a
\* bare paid: false when there is no Completed record, whatever records in
\* other statuses exist.
Thm_C11_PaidIffNewestUnexpired ==
  \A p \in {Phone07, Phone254} :
    LET resp == CheckEntitlementResponse(payments, p, TRUE, now)
        done == CompletedFor(Phone254)
    IN /\ resp.status = 200
       /\ IF done = {}
          THEN ~resp.paid /\ resp.message = None
          ELSE LET k == NewestCompletedFor(Phone254) IN
               /\ \A j \in done : payments[j].createdAt <= payments[k].createdAt
               /\ IF now < payments[k].expiresAt
                  THEN resp.paid
                  ELSE ~resp.paid /\ resp.message = "Subscription expired."

\* the only Completed record of the number has expired, another attempt of
\* the same number is in Processing, and the query answers "expired"
Wit_C11_ExpiredAndProcessing ==
  /\ \E i, j \in 1..Len(payments) :
       /\ payments[i].status = "Completed"
       /\ payments[i].PhoneNumber = Phone254
       /\ now >= payments[i].expiresAt
       /\ payments[j].status = "Processing"
       /\ payments[j].PhoneNumber = Phone254
  /\ CheckEntitlementResponse(payments, Phone07, TRUE, now).message
       = "Subscription expired."

\* C12: with several Completed records under one phone number the
\* entitlement query decides on the most recently created one only: unexpired,
\* the response carries its plan, expiry and receipt; expired, the response is
\* paid: false even if an older Completed record has not expired.
Thm_C12_NewestSupersedes ==
  Cardinality(CompletedFor(Phone254)) >= 2 =>
    LET resp == CheckEntitlementResponse(payments, Phone07, TRUE, now)
        k == NewestCompletedFor(Phone254)
    IN IF now < payments[k].expiresAt
       THEN /\ resp.paid
            /\ resp.plan = payments[k].packageDescription
            /\ resp.expiresAt = payments[k].expiresAt
            /\ resp.receipt = payments[k].MpesaReceiptNumber
       ELSE ~resp.paid

\* the newest Completed record has expired while an older one has not, and
\* the query answers paid: false
Wit_C12_OlderStillUnexpired ==
  /\ Cardinality(CompletedFor(Phone254)) >= 2
  /\ now >= payments[NewestCompletedFor(Phone254)].expiresAt
  /\ \E j \in CompletedFor(Phone254) : now < payments[j].expiresAt
  /\ ~CheckEntitlementResponse(payments, Phone07, TRUE, now).paid

\* C13: the status query of a stored record answers that record's current
\* status, with a message fixed by the status alone: one message each for
\* Completed, Cancelled, Failed and Timeout, and the pending message for any
\* other status.
Thm_C13_StatusAndMessage ==
  /\ \A i \in 1..Len(payments) :
       LET resp == CheckPaymentStatusResponse(payments, payments[i].CheckoutRequestID, TRUE)
       IN /\ resp.status = 200
          /\ resp.success
          /\ resp.payment = payments[i].status
          /\ resp.message = StatusMessage(payments[i].status)
          /\ payments[i].status = "Completed" =>
               resp.message
                 = "Your payment was successful. Kindly wait for service fulfillment."
          /\ payments[i].status = "Processing" => resp.message = "Status is pending."
  /\ \A s1, s2 \in TerminalStatuses :
       s1 # s2 => StatusMessage(s1) # StatusMessage(s2)
  /\ \A s \in TerminalStatuses :
       StatusMessage(s) # StatusMessage("Processing")
  /\ StatusMessage("Pending") = StatusMessage("Processing")

\* the store holds a Completed and a Processing record, and the query answers
\* each with its own status
Wit_C13_TwoStatusesQueried ==
  \E i, j \in 1..Len(payments) :
    /\ CheckPaymentStatusResponse(payments, payments[i].CheckoutRequestID, TRUE).payment
         = "Completed"
    /\ CheckPaymentStatusResponse(payments, payments[j].CheckoutRequestID, TRUE).payment
         = "Processing"
    /\ payments[j].status = "Processing"

\* C14: the status query of a checkout id without a stored record answers
\* 200, success, status Processing: not a 404 and not an error.
Thm_C14_UnknownIdStillProcessing ==
  \A c \in CheckoutIds :
    (\A i \in 1..Len(payments) : payments[i].CheckoutRequestID # c) =>
      LET resp == CheckPaymentStatusResponse(payments, c, TRUE)
      IN /\ resp.status = 200
         /\ resp.success
         /\ resp.payment = "Processing"

\* one checkout id has a Completed record, the other has none and is
\* answered Processing
Wit_C14_UnknownIdQueried ==
  /\ Len(payments) = 1
  /\ payments[1].status = "Completed"
  /\ \E c \in CheckoutIds :
       /\ payments[1].CheckoutRequestID # c
       /\ CheckPaymentStatusResponse(payments, c, TRUE).payment = "Processing"
       /\ CheckPaymentStatusResponse(payments, c, TRUE).message
            = "Payment record not found. Awaiting callback."

\* the requests that pass the validation, and the provider answers that
\* let a request through
ValidRequests == {req \in PaymentRequests : ValidRequest(req)}
GoodTokens == {token \in TokenOutcomes : token.ok /\ token.token}
AcceptedStk == {stk \in StkOutcomes : stk.ResponseCode = "0"}

\* C15: whatever the request, the provider's answers and the store do, the
\* initiation answers success: true only if the request was valid, a token
\* was obtained and the provider answered ResponseCode "0"; the success
\* response carries that answer's CheckoutRequestID.
Thm_C15_SuccessOnlyIfAccepted ==
  \A req \in PaymentRequests, token \in TokenOutcomes, stk \in StkOutcomes,
     storeUp \in BOOLEAN :
    LET out == ProcessPaymentOutcome(payments, req.amount, req.phone,
                                     req.packageDescription, token, stk, storeUp, now)
    IN out.resp.success =>
         /\ stk.ResponseCode = "0"
         /\ token.ok /\ token.token
         /\ req.amount > 0 /\ req.phone # NoText /\ req.packageDescription # NoText
         /\ req.phone # PhoneShort
         /\ out.resp.status = 200
         /\ out.resp.checkoutRequestID = stk.CheckoutRequestID

\* an initiation has just been answered success with a checkout id, and the
\* record of that id is stored
Wit_C15_SuccessAnswered ==
  /\ last.op = "process_payment"
  /\ last.success
  /\ last.checkoutRequestID \in CheckoutIds
  /\ \E i \in 1..Len(payments) : payments[i].CheckoutRequestID = last.checkoutRequestID

\* C16: when the provider accepts and the store takes the record, the
\* initiation appends exactly one record, in Processing, keyed by the
\* provider's MerchantRequestID and CheckoutRequestID and holding the
\* normalized phone number, the amount and the plan, and answers with that
\* CheckoutRequestID.
Thm_C16_AcceptedPersistsOne ==
  \A req \in ValidRequests, token \in GoodTokens, stk \in AcceptedStk :
    (\A i \in 1..Len(payments) :
       /\ payments[i].MerchantRequestID # stk.MerchantRequestID
       /\ payments[i].CheckoutRequestID # stk.CheckoutRequestID) =>
      LET out == ProcessPaymentOutcome(payments, req.amount, req.phone,
                                       req.packageDescription, token, stk, TRUE, now)
          new == out.coll[Len(out.coll)]
      IN /\ Len(out.coll) = Len(payments) + 1
         /\ SubSeq(out.coll, 1, Len(payments)) = payments
         /\ new.status = "Processing"
         /\ new.MerchantRequestID = stk.MerchantRequestID
         /\ new.CheckoutRequestID = stk.CheckoutRequestID
         /\ new.PhoneNumber = Phone254
         /\ new.Amount = req.amount
         /\ new.packageDescription = req.packageDescription
         /\ out.resp.success
         /\ out.resp.checkoutRequestID = stk.CheckoutRequestID

\* a second initiation has just stored its record next to the first one,
\* which was given as 07... and is stored as 254...
Wit_C16_SecondAttemptStored ==
  /\ last.op = "process_payment"
  /\ last.success
  /\ Len(payments) = 2
  /\ payments[2].CheckoutRequestID = last.checkoutRequestID
  /\ payments[2].status = "Processing"
  /\ payments[2].PhoneNumber = Phone254
  /\ payments[2].packageDescription = Plan3HU

\* C17: when the provider accepts and the store does not take the record,
\* the initiation still answers success with the CheckoutRequestID.
Cex_C17_SaveFailureInvisible ==
  \A req \in ValidRequests, token \in GoodTokens, stk \in AcceptedStk :
    LET out == ProcessPaymentOutcome(payments, req.amount, req.phone,
                                     req.packageDescription, token, stk, FALSE, now)
    IN /\ out.resp.success
       /\ out.resp.status = 200
       /\ out.resp.checkoutRequestID = stk.CheckoutRequestID

\* C18: when the provider rejects the push request, the initiation answers
\* 400 with the provider's message and the store is left as it is, whether
\* the store is available or not.
Thm_C18_RejectedIsClientError ==
  \A req \in ValidRequests, token \in GoodTokens,
     stk \in StkOutcomes \ AcceptedStk, storeUp \in BOOLEAN :
    LET out == ProcessPaymentOutcome(payments, req.amount, req.phone,
                                     req.packageDescription, token, stk, storeUp, now)
    IN /\ out.resp.status = 400
       /\ ~out.resp.success
       /\ out.coll = payments
       /\ out.resp.message[1] = "Payment initiation failed: "
       /\ stk.ResponseDescription # None =>
            out.resp.message[2] = stk.ResponseDescription
       /\ (stk.ResponseDescription = None /\ stk.errorMessage # None) =>
            out.resp.message[2] = stk.errorMessage

\* with a Processing record in the store, a rejected push request is answered
\* 400 "Payment initiation failed: Rejected" and adds nothing
Wit_C18_RejectedAfterAccepted ==
  /\ \E i \in 1..Len(payments) : payments[i].status = "Processing"
  /\ \E stk \in StkOutcomes :
       /\ stk.ResponseCode = "1"
       /\ LET out == ProcessPaymentOutcome(payments, 20, Phone07, Plan3HU,
                                           CHOOSE token \in GoodTokens : TRUE,
                                           stk, TRUE, now)
          IN /\ out.resp.status = 400
             /\ out.resp.message = <<"Payment initiation failed: ", "Rejected">>
             /\ out.coll = payments

\* C19: when the credential endpoint rejects the request or returns no
\* access token, the initiation answers a 5xx status whatever status the
\* provider returned, submits no push request and stores nothing.
Cex_C19_AuthFailureIs5xx ==
  \A req \in ValidRequests, token \in TokenOutcomes \ GoodTokens,
     stk \in StkOutcomes :
    LET out == ProcessPaymentOutcome(payments, req.amount, req.phone,
                                     req.packageDescription, token, stk, TRUE, now)
    IN /\ out.resp.status >= 500
       /\ ~out.resp.success
       /\ ~out.resp.calls.stk
       /\ out.coll = payments

\* C20: an initiation with an amount of zero or less is answered 400
\* whatever its phone number and plan, before any provider call and without
\* a store write.
Thm_C20_NonPositiveAmountRejected ==
  \A amount \in {0, -5}, phone \in PhoneInputs, desc \in Plans \cup {NoText},
     token \in GoodTokens, stk \in AcceptedStk :
    LET out == ProcessPaymentOutcome(payments, amount, phone, desc, token, stk, TRUE, now)
    IN /\ out.resp.status = 400
       /\ ~out.resp.success
       /\ out.resp.calls = Calls(FALSE, FALSE)
       /\ out.coll = payments

\* with a record in the store, requests with amount 0 and amount -5 and
\* otherwise valid fields are answered 400 and store nothing
Wit_C20_BadAmountAfterAccepted ==
  /\ Len(payments) >= 1
  /\ \A amount \in {0, -5} :
       LET out == ProcessPaymentOutcome(payments, amount, Phone254, Plan7H,
                                        CHOOSE token \in GoodTokens : TRUE,
                                        CHOOSE stk \in AcceptedStk : TRUE, TRUE, now)
       IN /\ out.resp.status = 400
          /\ out.coll = payments
  /\ ProcessPaymentOutcome(payments, -5, Phone254, Plan7H,
                           CHOOSE token \in GoodTokens : TRUE,
                           CHOOSE stk \in AcceptedStk : TRUE, TRUE, now).resp.message
       = "Invalid amount provided"

\* C21: an initiation with amount, phone or plan missing, or with a phone
\* number the normalizer rejects, is answered 400, leaves the store as it is
\* and calls neither the credential endpoint nor the push endpoint.
Thm_C21_InvalidRequestRejected ==
  \A amount \in {0, 20}, phone \in PhoneInputs, desc \in Plans \cup {NoText},
     token \in GoodTokens, stk \in AcceptedStk :
    (amount = 0 \/ phone = NoText \/ desc = NoText \/ phone \notin {Phone07, Phone254}) =>
      LET out == ProcessPaymentOutcome(payments, amount, phone, desc, token, stk, TRUE, now)
      IN /\ out.resp.status = 400
         /\ ~out.resp.success
         /\ out.resp.calls = Calls(FALSE, FALSE)
         /\ out.coll = payments

\* with a record in the store, a request without phone is answered 400
\* "Missing required payment details" and one with a five-digit phone 400
\* "Invalid phone number format"; neither stores anything
Wit_C21_MissingAndMalformed ==
  /\ Len(payments) >= 1
  /\ LET token == CHOOSE x \in GoodTokens : TRUE
         stk == CHOOSE x \in AcceptedStk :
                  \A i \in 1..Len(payments) :
                    payments[i].CheckoutRequestID # x.CheckoutRequestID
         missing == ProcessPaymentOutcome(payments, 20, NoText, Plan7H, token, stk, TRUE, now)
         malformed == ProcessPaymentOutcome(payments, 20, PhoneShort, Plan7H, token, stk, TRUE, now)
     IN /\ \E x \in AcceptedStk :
             \A i \in 1..Len(payments) : payments[i].CheckoutRequestID # x.CheckoutRequestID
        /\ missing.resp.status = 400
        /\ missing.resp.message = "Missing required payment details"
        /\ missing.coll = payments
        /\ malformed.resp.status = 400
        /\ malformed.resp.message = "Invalid phone number format"
        /\ malformed.coll = payments

\* C22: normalizePhoneNumber applied to a number it returned returns that
\* number; "0712345678" and "254712345678" both give "254712345678", and
\* "12345" is rejected.
Thm_C22_NormalizeIdempotent ==
  /\ norm.calls = 2 => norm.out = normalizePhoneNumber(norm.phone)
  /\ (norm.calls >= 1 /\ norm.phone \in {Phone07, Phone254}) => norm.out = Phone254
  /\ (norm.calls >= 1 /\ norm.phone = PhoneShort) => norm.out = NoText

\* a number given with blanks around it and a leading 0 has been normalized
\* twice
Wit_C22_NormalizedTwice ==
  /\ norm.calls = 2
  /\ norm.phone = <<" ">> \o Phone07 \o <<" ">>
  /\ norm.out = Phone254

\* C23: normalizePhoneNumber strips surrounding blanks and one leading "+",
\* then turns 0[17] and eight digits into 254..., returns 254[17] and eight
\* digits as it is, and rejects everything else.
Cex_C23_StripsPlus ==
  norm.calls = 1 =>
    LET trimmed == Trim(norm.phone)
        stripped == IF trimmed # <<>> /\ Head(trimmed) = "+" THEN Tail(trimmed)
                    ELSE trimmed
        digitsOk == \A i \in 1..Len(stripped) : stripped[i] \in Digits
    IN norm.out
         = IF digitsOk /\ Len(stripped) = 10 /\ stripped[1] = "0"
              /\ stripped[2] \in {"1", "7"}
           THEN <<"2", "5", "4">> \o Tail(stripped)
           ELSE IF digitsOk /\ Len(stripped) = 12
                   /\ SubSeq(stripped, 1, 3) = <<"2", "5", "4">>
                   /\ stripped[4] \in {"1", "7"}
           THEN stripped
           ELSE NoText

\* C24: for an entitled phone number the bandwidth of the answer depends on
\* the plan description of the record found and on nothing else: "unlimited"
\* when it contains "unlimited" in any case, else "3mbps" when it contains
\* "3mbps" or "vybz" in any case, else "default".  The descriptions are the
\* two plans on sale and six more, each put in place of the stored one.
Thm_C24_BandwidthFromPlan ==
  LET classOf ==
        { <<Plan3HU, "unlimited">>,
          <<Plan7H, "default">>,
          <<<<"U", "N", "L", "I", "M", "I", "T", "E", "D", " ", "3", "M", "b", "p", "s">>, "unlimited">>,
          <<<<"V", "y", "b", "z", " ", "u", "n", "l", "i", "m", "i", "t", "e", "d">>, "unlimited">>,
          <<<<"D", "a", "i", "l", "y", " ", "3", "M", "b", "p", "s">>, "3mbps">>,
          <<<<"V", "Y", "B", "Z", " ", "1", "-", "H", "o", "u", "r">>, "3mbps">>,
          <<<<"v", "y", "b", "z">>, "3mbps">>,
          <<<<"3", " ", "M", "b", "p", "s", " ", "U", "n", "l", "t", "d">>, "default">> }
  IN \A phone \in PhoneInputs \ {NoText} :
       LET k == LatestCompleted(payments, normalizePhoneNumber(phone)) IN
       (normalizePhoneNumber(phone) # NoText /\ k # 0) =>
         \A pair \in classOf :
           LET coll == [payments EXCEPT ![k].packageDescription = pair[1]]
               r == CheckEntitlementResponse(coll, phone, TRUE, now)
               stored == CheckEntitlementResponse(payments, phone, TRUE, now)
           IN /\ r.status = 200
              /\ r.paid => r.bandwidth = pair[2]
              /\ (payments[k].packageDescription = pair[1] /\ stored.paid)
                   => stored.bandwidth = pair[2]

\* a phone number is entitled by a 7-Hour purchase made after a completed
\* 3-Hour Unlimited one, and is answered with the default class
Wit_C24_DefaultAfterUnlimited ==
  /\ Len(payments) = 2
  /\ payments[1].status = "Completed"
  /\ payments[1].packageDescription = Plan3HU
  /\ payments[2].packageDescription = Plan7H
  /\ payments[2].PhoneNumber = payments[1].PhoneNumber
  /\ LET r == CheckEntitlementResponse(payments, Phone07, TRUE, now)
     IN r.status = 200 /\ r.paid /\ r.bandwidth = "default"

\* C25: a process launched without the consumer key, the consumer secret,
\* the business shortcode, the passkey, the callback URL, the store
\* connection string or one of the three e-mail settings never serves a
\* request: it exits with code 1 and leaves no record, no queued task and no
\* response; and it exits only for one of these.
Thm_C25_RefusesWithoutRequired ==
  LET required == {"MPESA_CONSUMER_KEY", "MPESA_CONSUMER_SECRET",
                   "MPESA_BUSINESS_SHORTCODE", "MPESA_PASSKEY",
                   "MPESA_CALLBACK_URL", "MONGODB_URI", "EMAIL_USER",
                   "EMAIL_PASS", "EMAIL_RECIPIENT"}
  IN /\ (required \ env # {}) =>
          /\ proc \in {"starting", "exit1"}
          /\ payments = <<>> /\ queue = <<>> /\ last = NoResp
     /\ proc = "exit1" => required \ env # {}

\* a process launched without the store connection string has exited
Wit_C25_ExitedWithoutStoreUri ==
  /\ env = EnvVars \ {"MONGODB_URI"}
  /\ proc = "exit1"

\* C25 as stated: a process launched without the provider API base URL
\* never serves a request.
Cex_C25_BaseUrlRequired ==
  "MPESA_API_BASE_URL" \notin env => proc # "serving"

\* C26: of two pending background tasks for the same correlation key, at
\* most one changes the record, in whichever order and at whatever later time
\* their store operations are applied.
Cex_C26_AtMostOneWrites ==
  \A i, j \in 1..Len(queue) :
    (i # j /\ queue[i].body.hasStkCallback
       /\ queue[i].body.CheckoutRequestID = queue[j].body.CheckoutRequestID
       /\ queue[i].body.MerchantRequestID = queue[j].body.MerchantRequestID) =>
      \A first \in PhaseBOutcomes(payments, queue[i].body, now) :
        \A t \in now..MaxTime :
          \A second \in PhaseBOutcomes(first.coll, queue[j].body, t) :
            ~(first.coll # payments /\ second.coll # first.coll)

\* C27: a success confirmation for an initiation the provider has accepted
\* and the handler has not yet saved is not lost: the background task that
\* processes it without an error leaves a Completed record for its key.
Cex_C27_EarlyConfirmationKept ==
  [][\A b \in CallbackBodies :
       (/\ PhaseBStepOn(b)
        /\ b.hasStkCallback /\ b.ResultCode = 0
        /\ last'.log # "error"
        /\ \E k \in 1..Len(inflight) :
             /\ inflight[k].stk.CheckoutRequestID = b.CheckoutRequestID
             /\ inflight[k].stk.MerchantRequestID = b.MerchantRequestID) =>
         \E i \in 1..Len(payments') :
           /\ payments'[i].CheckoutRequestID = b.CheckoutRequestID
           /\ payments'[i].status = "Completed"]_vars

\* C28: no step removes a record, and a step that changes an existing record
\* is a background task of the webhook on a success confirmation carrying
\* that record's CheckoutRequestID or MerchantRequestID; so a Processing
\* record for which no such confirmation is delivered stays as it is through
\* status queries, entitlement checks, further initiations and time.
Thm_C28_OnlyPhaseBChanges ==
  [][/\ Len(payments') >= Len(payments)
     /\ \A i \in 1..Len(payments) :
          payments'[i] # payments[i] =>
            \E b \in CallbackBodies :
              /\ PhaseBStepOn(b)
              /\ b.hasStkCallback /\ b.ResultCode = 0
              /\ \/ payments[i].CheckoutRequestID = b.CheckoutRequestID
                 \/ payments[i].MerchantRequestID = b.MerchantRequestID]_vars

\* an hour on, the first record is still as it was created, in Processing,
\* after a second initiation and the confirmation of that one
Wit_C28_ProcessingUntouched ==
  /\ Len(payments) = 2
  /\ now = 1
  /\ payments[1].status = "Processing"
  /\ payments[1].createdAt = 0 /\ payments[1].updatedAt = 0
  /\ payments[2].status = "Completed" /\ payments[2].updatedAt = 1
  /\ last.op = "phase_b" /\ last.log = "updated"

\* C29: when a success confirmation's CheckoutRequestID is that of one
\* record and its MerchantRequestID that of another, the background task
\* updates the record with the CheckoutRequestID and leaves the other as it
\* is.
Cex_C29_CheckoutIdPreferred ==
  [][\A b \in CallbackBodies :
       (/\ PhaseBStepOn(b)
        /\ b.hasStkCallback /\ b.ResultCode = 0
        /\ last'.log = "updated") =>
         \A byCheckout, byMerchant \in 1..Len(payments) :
           (/\ byCheckout # byMerchant
            /\ payments[byCheckout].CheckoutRequestID = b.CheckoutRequestID
            /\ payments[byMerchant].MerchantRequestID = b.MerchantRequestID) =>
             /\ payments'[byMerchant] = payments[byMerchant]
             /\ payments'[byCheckout].status = "Completed"
             /\ payments'[byCheckout].updatedAt = now]_vars

\* C30: a background task that ends in an error (metadata that cannot be
\* iterated, the store unavailable, a unique index broken) changes no record,
\* leaves the acknowledgment at the 200 already sent, produces no response
\* to any caller, and the process goes on serving.
Thm_C30_PhaseBErrorsSwallowed ==
  [][((\E b \in CallbackBodies : PhaseBStepOn(b)) /\ last'.log = "error") =>
       /\ payments' = payments
       /\ last'.acked = 200
       /\ DOMAIN last' = {"op", "acked", "dbAccessed", "log"}
       /\ proc' = "serving"]_vars

\* the task of a confirmation with malformed metadata has failed before any
\* store call, the matching record is still in Processing and the server
\* is serving
Wit_C30_MalformedMetadataSwallowed ==
  /\ last.op = "phase_b" /\ last.log = "error" /\ ~last.dbAccessed
  /\ last.acked = 200
  /\ proc = "serving"
  /\ Len(payments) = 1
  /\ payments[1].CheckoutRequestID = "ws_CO_1"
  /\ payments[1].status = "Processing"

\* C31: a webhook request whose body has no Body.stkCallback is answered
\* with the 200 acknowledgment, and its background task calls the store
\* neither to read nor to write: every record is as before.
Thm_C31_InvalidEnvelopeNoStore ==
  [][/\ (last'.op = "callback" /\ Len(queue') > Len(queue)
           /\ ~queue'[Len(queue')].body.hasStkCallback) =>
          /\ last'.status = 200
          /\ payments' = payments
     /\ PhaseBStepOn(BadEnvelope) =>
          /\ payments' = payments
          /\ ~last'.dbAccessed
          /\ last'.acked = 200]_vars

\* the task of a body without stkCallback has ended while a record waits
\* in Processing and another is Completed
Wit_C31_InvalidEnvelopeProcessed ==
  /\ last.op = "phase_b" /\ last.log = "invalid" /\ last.acked = 200
  /\ Len(payments) = 2
  /\ payments[1].status = "Completed"
  /\ payments[2].status = "Processing"

\* C32: the PhoneNumber of every record is 254, then 1 or 7, then eight
\* digits, when the record is created and after a confirmation has been
\* applied to it.
Cex_C32_PhoneCanonical ==
  \A i \in 1..Len(payments) :
    LET p == payments[i].PhoneNumber
    IN /\ Len(p) = 12
       /\ SubSeq(p, 1, 3) = <<"2", "5", "4">>
       /\ p[4] \in {"1", "7"}
       /\ \A k \in 5..12 : p[k] \in Digits

\* C33: the amount sent to the provider and stored in the record is a
\* positive integer; a request with a fractional amount is rejected or its
\* amount is made integral before it is sent.
Cex_C33_AmountIntegral ==
  amt.step \in {"submitted", "stored"} =>
    /\ ~amt.Amount.nan /\ ~amt.Amount.neg
    /\ amt.Amount.whole > 0
    /\ amt.Amount.frac = <<>>

\* C34: no two records have the same MerchantRequestID and no two the same
\* CheckoutRequestID; an initiation the provider answers with an identifier
\* a record already has fails with 500 and leaves the collection as it is.
Thm_C34_CorrelationIdsUnique ==
  /\ \A i, j \in 1..Len(payments) :
       i # j =>
         /\ payments[i].MerchantRequestID # payments[j].MerchantRequestID
         /\ payments[i].CheckoutRequestID # payments[j].CheckoutRequestID
  /\ \A req \in ValidRequests, token \in GoodTokens, stk \in AcceptedStk :
       (\E i \in 1..Len(payments) :
          \/ payments[i].MerchantRequestID = stk.MerchantRequestID
          \/ payments[i].CheckoutRequestID = stk.CheckoutRequestID) =>
         LET out == ProcessPaymentOutcome(payments, req.amount, req.phone,
                                          req.packageDescription, token, stk,
                                          TRUE, now)
         IN out.coll = payments /\ out.resp.status = 500

\* one record (M2, ws_CO_2) is stored, and an initiation answered with
\* (M1, ws_CO_2), the same CheckoutRequestID alone, is refused
Wit_C34_SecondCheckoutIdRefused ==
  /\ Len(payments) = 1
  /\ payments[1].MerchantRequestID = "M2"
  /\ payments[1].CheckoutRequestID = "ws_CO_2"
  /\ \E req \in ValidRequests, token \in GoodTokens, stk \in AcceptedStk :
       /\ stk.MerchantRequestID = "M1" /\ stk.CheckoutRequestID = "ws_CO_2"
       /\ ProcessPaymentOutcome(payments, req.amount, req.phone,
                                req.packageDescription, token, stk, TRUE,
                                now).resp.status = 500

\* C35: no two records hold the same MpesaReceiptNumber, records without
\* one aside; the background task of a success confirmation whose receipt
\* another record holds leaves the receipts pairwise different.
Thm_C35_ReceiptsUnique ==
  LET ReceiptsOk(coll) ==
        \A i, j \in 1..Len(coll) :
          (i # j /\ coll[i].MpesaReceiptNumber # None) =>
            coll[i].MpesaReceiptNumber # coll[j].MpesaReceiptNumber
  IN /\ ReceiptsOk(payments)
     /\ \A b \in CallbackBodies :
          \A out \in PhaseBOutcomes(payments, b, now) : ReceiptsOk(out.coll)

\* the first record holds receipt ABC123, the second none; a confirmation
\* for the second with receipt ABC123 can only end in an error that changes
\* nothing
Wit_C35_HeldReceiptRefused ==
  /\ Len(payments) = 2
  /\ payments[1].MpesaReceiptNumber = "ABC123"
  /\ payments[2].MpesaReceiptNumber = None
  /\ payments[2].status = "Processing"
  /\ \E b \in CallbackBodies :
       /\ b.hasStkCallback /\ b.ResultCode = 0
       /\ b.CheckoutRequestID = payments[2].CheckoutRequestID
       /\ b.MerchantRequestID = payments[2].MerchantRequestID
       /\ b.CallbackMetadata.present /\ b.CallbackMetadata.iterable
       /\ \E k \in 1..Len(b.CallbackMetadata.Items) :
            /\ b.CallbackMetadata.Items[k].Name = "MpesaReceiptNumber"
            /\ b.CallbackMetadata.Items[k].Value = "ABC123"
       /\ \A out \in PhaseBOutcomes(payments, b, now) :
            out.log = "error" /\ out.coll = payments

\* C36: with NODE_ENV "production" the JSON error response has no error
\* field, whatever error reached the middleware; so it is the same for two
\* errors that differ only in their details.
Cex_C36_NoDetailsInProduction ==
  (err.step = "answered" /\ err.NODE_ENV = "production") =>
    /\ err.response.error = NoText
    /\ \A other \in Errors :
         (/\ other.name = err.error.name
          /\ other.statusCode = err.error.statusCode
          /\ other.message = err.error.message
          /\ other.path = err.error.path
          /\ (other.errors = NoText) = (err.error.errors = NoText)) =>
           ErrorResponse(other, "production") = err.response

\* C37: every Completed record has a plan description, and the entitlement
\* check for a phone number that normalizes, with the store available,
\* answers 200 with paid true or false, never 500.
Thm_C37_EntitlementNeverInternal ==
  /\ \A i \in 1..Len(payments) :
       payments[i].status = "Completed" => payments[i].packageDescription # NoText
  /\ \A phone \in PhoneInputs \ {NoText} :
       normalizePhoneNumber(phone) # NoText =>
         LET r == CheckEntitlementResponse(payments, phone, TRUE, now)
         IN /\ r.status = 200
            /\ r.success
            /\ r.paid \in BOOLEAN

\* a record Completed by a confirmation without metadata still has the plan
\* of its initiation, and the entitlement check answers paid with that plan
Wit_C37_PlanKeptThroughConfirmation ==
  /\ Len(payments) = 1
  /\ payments[1].status = "Completed"
  /\ payments[1].MpesaReceiptNumber = None
  /\ payments[1].packageDescription = Plan7H
  /\ LET r == CheckEntitlementResponse(payments, Phone254, TRUE, now)
     IN r.status = 200 /\ r.paid /\ r.plan = Plan7H

\* C38: after every step of the page at most one polling timer is active,
\* and it is the one in state.pollingInterval; a status answer of Completed,
\* Cancelled, Failed or Timeout, a failed status request and a reset of the
\* UI each leave no timer active and state.pollingInterval null.
Thm_C38_OnePollingTimer ==
  [][/\ Cardinality(client'.timers) <= 1
     /\ client'.timers = IF client'.pollingInterval = 0 THEN {}
                         ELSE {client'.pollingInterval}
     /\ (\/ client'.event.kind = "reset"
         \/ /\ client'.event.kind = "poll_response"
            /\ client'.event.result \in {"Completed", "Cancelled", "Failed",
                                         "Timeout", "fail"}) =>
          /\ client'.timers = {}
          /\ client'.pollingInterval = 0]_vars

\* two submissions have each started a timer, and the answer Cancelled to
\* a status request has cleared the only one left
Wit_C38_SecondTimerCleared ==
  /\ client.step = "page"
  /\ client.started = 2
  /\ client.event.kind = "poll_response"
  /\ client.event.result = "Cancelled"
  /\ client.timers = {}
  /\ client.pollingInterval = 0

\* C39: mikrotikLogin is called at most once for a payment attempt, however
\* many status requests for its CheckoutRequestID are answered Completed.
Cex_C39_LoginOncePerAttempt ==
  \A i, j \in 1..Len(client.logins) :
    client.logins[i].checkout = client.logins[j].checkout => i = j

\* C40: the entitlement check and the login made for a completed payment use
\* the phone number the user entered for that payment (as typed or
\* normalized).
Cex_C40_LoginUsesEnteredPhone ==
  \A i \in 1..Len(client.logins) :
    client.logins[i].step \in {"checking", "submitted", "refused"} =>
      \E e \in 1..Len(client.entered) :
        /\ client.entered[e].checkout = client.logins[i].checkout
        /\ client.logins[i].phone \in {client.entered[e].typed, client.entered[e].phone}

====
